---- MODULE Spec2Model ----
(***************************************************************************)
(* QuickShop ETL: read -> validate -> transform -> write, per date.        *)
(*                                                                         *)
(* Values.  A cell of a pandas DataFrame (or a value of a Python dict) is  *)
(* a record [t, n, s]: t is the kind of the value, n its numeric payload   *)
(* and s its text payload.                                                 *)
(*   "int"      n = the integer                                            *)
(*   "float"    n = the value in thousandths (19.99 is 19990)              *)
(*   "str"      s = the text; a date string is s = its strftime format and *)
(*              n = the ordinal of the calendar day it denotes             *)
(*   "ts"       pandas Timestamp of day n                                  *)
(*   "datetime" Python datetime of day n                                   *)
(*   "nan"      NaN / NaT, what read_csv and errors="coerce" give for a    *)
(*              missing or unparseable value                               *)
(*   "none"     Python None                                                *)
(* A DataFrame is [columns, rows]: rows is a sequence of functions from    *)
(* the column names to cells.                                              *)
(***************************************************************************)
EXTENDS Integers, Sequences, FiniteSets, TLC

\* Largest number of rows of a table of ValidateSpec.
MaxTableRows == 2

\* Largest number of writer calls of WriterSpec.
MaxWriterCalls == 2

\* Largest number of rows of the order file of Spec.
MaxOrderRows == 2

\* Largest number of runs of the task of Spec.
MaxTaskCalls == 2

\* Number of calendar days main may range over in MainSpec.
MaxDays == 2

VARIABLES
    v_schema,   \* ValidateSpec: which schema the table is read for
    v_raw,      \* ValidateSpec: the table as read_csv returns it
    v_parsed,   \* ValidateSpec: [good, bad] of parse_date_column
    v_valid,    \* ValidateSpec: [good, bad] of validate_dataframe
    v_pc,       \* ValidateSpec: "read" -> "parsed" -> "validated"
    fs,         \* the files and directories of the output root and of the temporary directory
    w,          \* WriterSpec: the writer call in progress (or the last one)
    w_before,   \* WriterSpec: fs when that call began
    w_prev,     \* WriterSpec: the call that returned right before it began
    w_calls,    \* WriterSpec: how many calls were made
    data_dir,       \* the data directory: products.csv and the order file of each day
    frame,      \* the locals of the run_for_date call in progress
    ret,        \* what that call handed its caller
    returned,   \* Spec: the last outcome the task got, by dry_run
    task_calls, \* Spec: how many times the task ran
    main,       \* MainSpec: the locals of main
    t_in,       \* TransformSpec: the table add_order_total is given
    t_out,      \* TransformSpec: the table it returns
    t_pc,       \* TransformSpec: "given" -> "returned"
    disk,       \* RaceSpec: the names and the inodes of the output root
    runs        \* RaceSpec: the writer call of each of the two runs

vvars == <<v_schema, v_raw, v_parsed, v_valid, v_pc>>

wvars == <<w, w_before, w_prev, w_calls>>

pvars == <<data_dir, frame, ret, returned, task_calls, main>>

tvars == <<t_in, t_out, t_pc>>

rvars == <<disk, runs>>

\* What the actions of each specification leave alone.
notValidate == <<fs, wvars, pvars, tvars, rvars>>
notWriter == <<vvars, pvars, tvars, rvars>>
notPipeline == <<vvars, wvars, tvars, rvars>>
notTransform == <<vvars, fs, wvars, pvars, rvars>>
notRace == <<vvars, fs, wvars, pvars, tvars>>

----------------------------------------------------------------------------
(* Cells and tables *)

Cell(t, n, s) == [t |-> t, n |-> n, s |-> s]
PyInt(n) == Cell("int", n, "")
PyFloat(m) == Cell("float", m, "")
PyStr(s) == Cell("str", 0, s)
DateStr(fmt, d) == Cell("str", d, fmt)
Ts(d) == Cell("ts", d, "")
NaN == Cell("nan", 0, "")
None == Cell("none", 0, "")

IsoFormat == "%Y-%m-%d"
\* One format the permissive parser infers and the strict one rejects.
FlexFormat == "%b %d %Y"
NoFormat == "not a date"

isna(c) == c.t = "nan"

\* pd.DataFrame(list_of_rows): the columns are those of the rows; no rows, no columns.
DataFrame(rows) ==
    [columns |-> IF rows = <<>> THEN {} ELSE DOMAIN rows[1], rows |-> rows]

EmptyFrame == DataFrame(<<>>)

NoResult == [good |-> EmptyFrame, bad |-> EmptyFrame]

\* Mutant: no table counts as empty.
empty_never(df) == FALSE

\* DataFrame.empty
empty(df) == df.rows = <<>> \/ df.columns = {}

len(df) == Len(df.rows)

\* df[col] = value for every row (adds the column when absent).
SetColumn(df, col, c) ==
    IF df.rows = <<>> THEN df
    ELSE [columns |-> df.columns \cup {col},
          rows |-> [i \in 1..Len(df.rows) |-> (col :> c) @@ df.rows[i]]]

\* pd.concat([a, b], ignore_index=True): union of the columns, NaN where absent.
Widen(r, cols) == [c \in cols |-> IF c \in DOMAIN r THEN r[c] ELSE NaN]

\* Mutant: the second frame is forgotten.
concat_first_only(a, b) == a

concat(a, b) ==
    LET cols == a.columns \cup b.columns
    IN [columns |-> cols,
        rows |-> [i \in 1..Len(a.rows) |-> Widen(a.rows[i], cols)]
                 \o [i \in 1..Len(b.rows) |-> Widen(b.rows[i], cols)]]

----------------------------------------------------------------------------
(* readers.parse_date_column *)

\* pd.to_datetime(x, format="%Y-%m-%d", errors="coerce")
to_datetime_strict(c) ==
    IF c.t = "ts" THEN c
    ELSE IF c.t = "str" /\ c.s = IsoFormat THEN Ts(c.n)
    ELSE NaN

\* pd.to_datetime(x, errors="coerce"): the format is inferred.
to_datetime_flexible(c) ==
    IF c.t = "ts" THEN c
    ELSE IF c.t = "str" /\ c.s \in {IsoFormat, FlexFormat} THEN Ts(c.n)
    ELSE NaN

FlexibleFailed == PyStr("Flexible parsing also failed")
StrictFailed == PyStr("Failed to parse with format")

\* Returns [raised, good, bad]; raised is the KeyError of a missing column.
parse_date_column(df, column_name) ==
    IF column_name \notin df.columns
    THEN [raised |-> TRUE, good |-> EmptyFrame, bad |-> EmptyFrame]
    ELSE
    LET strictBad(r) == isna(to_datetime_strict(r[column_name]))
        strictGood(r) == ~strictBad(r)
        bad_rows == SelectSeq(df.rows, strictBad)
        bad_df == SetColumn([columns |-> df.columns, rows |-> bad_rows],
                            "_parse_error", StrictFailed)
        good_rows == SelectSeq(df.rows, strictGood)
        good_df == [columns |-> df.columns,
                    rows |-> [i \in 1..Len(good_rows) |->
                        [good_rows[i] EXCEPT
                            ![column_name] = to_datetime_strict(@)]]]
        stillBad(r) == isna(to_datetime_flexible(r[column_name]))
        stillGood(r) == ~stillBad(r)
        fb_rows == SelectSeq(bad_df.rows, stillGood)
        fallback_good == [columns |-> bad_df.columns,
                          rows |-> [i \in 1..Len(fb_rows) |->
                              [fb_rows[i] EXCEPT
                                  ![column_name] = to_datetime_flexible(@)]]]
        final_bad == SetColumn([columns |-> bad_df.columns,
                                rows |-> SelectSeq(bad_df.rows, stillBad)],
                               "_parse_error", FlexibleFailed)
    IN IF empty(bad_df)
       THEN [raised |-> FALSE, good |-> good_df, bad |-> bad_df]
       ELSE [raised |-> FALSE, good |-> concat(good_df, fallback_good),
             bad |-> final_bad]

----------------------------------------------------------------------------
(* validation: the pydantic schemas and validate_dataframe *)

Field(name, type, required, ge0) ==
    [name |-> name, type |-> type, required |-> required, ge0 |-> ge0]

ProductSchema ==
    { Field("product_id", "int", TRUE, FALSE),
      Field("product_name", "str", TRUE, FALSE),
      Field("category", "str", FALSE, FALSE),
      Field("price", "float", TRUE, TRUE) }

InventorySchema ==
    { Field("product_id", "int", TRUE, FALSE),
      Field("warehouse_id", "str", TRUE, FALSE),
      Field("stock_on_hand", "int", TRUE, TRUE),
      Field("last_restock_date", "datetime", TRUE, FALSE) }

OrderSchema ==
    { Field("order_id", "int", TRUE, FALSE),
      Field("order_date", "datetime", TRUE, FALSE),
      Field("product_id", "int", TRUE, FALSE),
      Field("qty", "int", TRUE, TRUE),
      Field("unit_price", "float", TRUE, TRUE),
      Field("user_id", "int", FALSE, FALSE),
      Field("order_status", "str", FALSE, FALSE) }

\* Timestamp.to_pydatetime(), applied to every value of row.to_dict().
to_pydatetime(c) == IF c.t = "ts" THEN Cell("datetime", c.n, "") ELSE c

to_dict(row) == [k \in DOMAIN row |-> to_pydatetime(row[k])]

\* Mutant: the ge=0 constraints are not enforced.
FieldAccepts_no_range(f, c) ==
    IF c.t = "none" THEN ~f.required
    ELSE CASE f.type = "int" -> c.t = "int" \/ (c.t = "float" /\ c.n % 1000 = 0)
           [] f.type = "float" -> c.t \in {"int", "float", "nan"}
           [] f.type = "str" -> c.t = "str"
           [] f.type = "datetime" -> c.t = "datetime"

\* pydantic's check of one present value against one field.  None is accepted
\* by an Optional field only; NaN is a float, so it is no integer, fails every
\* ge=0 comparison and is no datetime.
FieldAccepts(f, c) ==
    IF c.t = "none" THEN ~f.required
    ELSE CASE f.type = "int" ->
                (c.t = "int" \/ (c.t = "float" /\ c.n % 1000 = 0))
                /\ (f.ge0 => c.n >= 0)
           [] f.type = "float" ->
                \/ c.t \in {"int", "float"} /\ (f.ge0 => c.n >= 0)
                \/ c.t = "nan" /\ ~f.ge0
           [] f.type = "str" -> c.t = "str"
           [] f.type = "datetime" -> c.t = "datetime"

\* SchemaClass.parse_obj(obj) does not raise.
parse_obj_ok(schema, obj) ==
    \A f \in schema :
        IF f.name \in DOMAIN obj THEN FieldAccepts(f, obj[f.name])
        ELSE ~f.required

ValidationError == PyStr("validation error")

\* Returns [good, bad].
validate_dataframe(df, schema) ==
    LET ok(r) == parse_obj_ok(schema, to_dict(r))
        notok(r) == ~ok(r)
        good_rows == SelectSeq(df.rows, ok)
        rejected == SelectSeq(df.rows, notok)
        bad_rows == [i \in 1..Len(rejected) |->
                        ("_error" :> ValidationError) @@ rejected[i]]
    IN [good |-> DataFrame(good_rows), bad |-> DataFrame(bad_rows)]

----------------------------------------------------------------------------
(* transforms *)

\* pd.to_numeric(x, errors='coerce'): NaN when not a number.
to_numeric(c) == IF c.t \in {"int", "float"} THEN c ELSE NaN

\* A number in thousandths.
Thousandths(c) == IF c.t = "int" THEN c.n * 1000 ELSE c.n

\* .fillna(0).astype(int): the integer part.
astype_int(c) ==
    CASE c.t = "int" -> c.n
      [] c.t = "float" -> IF c.n >= 0 THEN c.n \div 1000 ELSE -((-c.n) \div 1000)
      [] OTHER -> 0

\* Mutant: the price loses its fraction.
astype_float_truncated(c) == 1000 * astype_int(c)

\* .fillna(0.0).astype(float), in thousandths.
astype_float(c) == IF c.t \in {"int", "float"} THEN Thousandths(c) ELSE 0

\* round(x, 2) of a value in thousandths (half to even, as numpy does).
round2(x) ==
    LET q == x \div 10
        r == x % 10
    IN IF r < 5 THEN 10 * q
       ELSE IF r > 5 THEN 10 * (q + 1)
       ELSE IF q % 2 = 0 THEN 10 * q ELSE 10 * (q + 1)

\* Mutant: the row total is not rounded.
order_total_unrounded(qty, unit_price) == qty * unit_price

\* (df['qty'] * df['unit_price']).round(2), of one row.
order_total(qty, unit_price) == round2(qty * unit_price)

\* The column names add_order_total renames to qty and unit_price.
QtyAliases == {"Qty", "QTY"}
PriceAliases == {"unitprice", "UnitPrice", "Unit_Price", "price", "Price"}

rename(df, from, to) ==
    [columns |-> (df.columns \ from) \cup {to},
     rows |-> [i \in 1..Len(df.rows) |->
        [c \in (df.columns \ from) \cup {to} |->
            IF c = to THEN df.rows[i][CHOOSE a \in from \cap df.columns : TRUE]
            ELSE df.rows[i][c]]]]

\* Returns [raised, df]: df.get('qty', 0) of a table without the column is a
\* scalar, which has no fillna.
add_order_total(df_orders) ==
    LET df1 == IF "qty" \notin df_orders.columns /\ QtyAliases \cap df_orders.columns # {}
               THEN rename(df_orders, QtyAliases, "qty") ELSE df_orders
        df == IF "unit_price" \notin df1.columns /\ PriceAliases \cap df1.columns # {}
              THEN rename(df1, PriceAliases, "unit_price") ELSE df1
    IN IF "qty" \notin df.columns \/ "unit_price" \notin df.columns
       THEN [raised |-> TRUE, df |-> df]
       ELSE [raised |-> FALSE,
             df |-> [columns |-> df.columns \cup {"order_total"},
                     rows |-> [i \in 1..Len(df.rows) |->
                        LET qty == astype_int(to_numeric(df.rows[i]["qty"]))
                            unit_price == astype_float(to_numeric(df.rows[i]["unit_price"]))
                        IN ("order_total" :> PyFloat(order_total(qty, unit_price)))
                           @@ [df.rows[i] EXCEPT !["qty"] = PyInt(qty),
                                                 !["unit_price"] = PyFloat(unit_price)]]]]

\* Series.fillna(value)
fillna(c, value) == IF isna(c) THEN value ELSE c

\* The rows of right whose key equals k.
Matches(right, k) ==
    { j \in 1..Len(right.rows) :
        /\ ~isna(k)
        /\ ~isna(to_numeric(right.rows[j]["product_id"]))
        /\ Thousandths(to_numeric(right.rows[j]["product_id"])) = Thousandths(k) }

\* Mutant: an inner join.
merge_inner(left, right) ==
    LET kept == SelectSeq(left.rows,
                    LAMBDA r : Matches(right, to_numeric(r["product_id"])) # {})
    IN [i \in 1..Len(kept) |->
          LET j == CHOOSE j \in Matches(right, to_numeric(kept[i]["product_id"])) : TRUE
          IN [product_name |-> right.rows[j]["product_name"],
              category |-> right.rows[j]["category"],
              product_price |-> right.rows[j]["price"]]
             @@ [kept[i] EXCEPT !["product_id"] = to_numeric(@)]]

\* left.merge(right[...].rename(columns={'price': 'product_price'}),
\* on='product_id', how='left') for a right side of unique keys: the rows.
merge_left(left, right) ==
    [i \in 1..Len(left.rows) |->
        LET k == to_numeric(left.rows[i]["product_id"])
            found == Matches(right, k)
            base == [left.rows[i] EXCEPT !["product_id"] = k]
        IN IF found = {}
           THEN [product_name |-> NaN, category |-> NaN, product_price |-> NaN] @@ base
           ELSE LET j == CHOOSE j \in found : TRUE
                IN [product_name |-> right.rows[j]["product_name"],
                    category |-> right.rows[j]["category"],
                    product_price |-> right.rows[j]["price"]] @@ base]

\* Mutant: the keys of the right side are not checked.
right_unique_unchecked(right) == TRUE

\* validate='m:1': the keys of the right side are unique.
right_unique(right) ==
    \A i, j \in 1..Len(right.rows) :
        Thousandths(to_numeric(right.rows[i]["product_id"]))
          = Thousandths(to_numeric(right.rows[j]["product_id"])) => i = j

UnknownProduct == PyStr("unknown_product")
UnknownCategory == PyStr("unknown_category")

\* Returns [raised, df]; raised is the KeyError of a missing column or the
\* MergeError of a product table with a repeated product_id.
enrich_with_products(df_orders, df_products) ==
    IF \/ "product_id" \notin df_orders.columns
       \/ ~({"product_id", "product_name", "category", "price"} \subseteq df_products.columns)
       \/ ~right_unique(df_products)
    THEN [raised |-> TRUE, df |-> df_orders]
    ELSE LET merged == merge_left(df_orders, df_products)
         IN [raised |-> FALSE,
             df |-> [columns |-> df_orders.columns
                                 \cup {"product_name", "category", "product_price"},
                     rows |-> [i \in 1..Len(merged) |->
                        [merged[i] EXCEPT
                            !["product_name"] = fillna(@, UnknownProduct),
                            !["category"] = fillna(@, UnknownCategory)]]]]

\* Series.dt.strftime('%Y-%m-%d')
strftime(c, fmt) == IF c.t = "ts" THEN DateStr(fmt, c.n) ELSE NaN

\* Returns [raised, df].
add_order_date_iso(df_orders, date_col, out_col) ==
    IF date_col \notin df_orders.columns
    THEN [raised |-> TRUE, df |-> df_orders]
    ELSE [raised |-> FALSE,
          df |-> [columns |-> df_orders.columns \cup {out_col},
                  rows |-> [i \in 1..Len(df_orders.rows) |->
                     (out_col :> strftime(to_datetime_flexible(df_orders.rows[i][date_col]),
                                          IsoFormat))
                     @@ df_orders.rows[i]]]]

\* Series.sum() of a column of floats, in thousandths.
RECURSIVE SumColumn(_, _)
SumColumn(rows, col) ==
    IF rows = <<>> THEN 0
    ELSE astype_float(rows[1][col]) + SumColumn(Tail(rows), col)

----------------------------------------------------------------------------
(* writers: the file system and the three writers, one system call a step *)

\* A path is [dir, sub, file]: the directory under the output root (or the
\* mkdtemp prefix, in the system's temporary directory), the part of the name
\* that comes from the arguments, and the pattern of the file name ("" for a
\* directory).  The file system is the set of entries [path, state, data];
\* state is "dir", "partial" (being written) or "complete".
Path(dir, sub, file) == [dir |-> dir, sub |-> sub, file |-> file]

OutputDirs == {"processed", "summaries", "bad_rows"}

TmpPrefix == "tmp_parquet_"

UnderOutputRoot(p) == p.dir \in OutputDirs

exists(files, p) == \E f \in files : f.path = p

Entry(files, p) == CHOOSE f \in files : f.path = p

Put(files, p, state, data) ==
    { f \in files : f.path # p } \cup {[path |-> p, state |-> state, data |-> data]}

\* Mutant: the tree is left behind.
rmtree_forgotten(files, d) == files

\* shutil.rmtree(d): the directory and what is in it.
rmtree(files, d) ==
    { f \in files : ~(f.path.dir = d.dir /\ f.path.sub = d.sub) }

\* Path.mkdir(parents=True, exist_ok=True)
mkdir(files, d) ==
    LET parent == Path(d.dir, None, "")
        withParent == IF exists(files, parent) THEN files
                      ELSE Put(files, parent, "dir", EmptyFrame)
    IN IF exists(withParent, d) THEN withParent
       ELSE Put(withParent, d, "dir", EmptyFrame)

\* os.replace(src, dst): dst is src's file from one moment to the next.
replace(files, src, dst) ==
    LET f == Entry(files, src)
    IN Put({ g \in files : g.path # src }, dst, f.state, f.data)

\* tempfile.mkdtemp(prefix="tmp_parquet_"): a name no entry has.
mkdtemp(files) ==
    LET used == { f.path.sub.n : f \in { g \in files : g.path.dir = TmpPrefix } }
        k == CHOOSE n \in 1..(Cardinality(used) + 1) : n \notin used
    IN Path(TmpPrefix, PyInt(k), "")

\* The final path of each writer, from its arguments.
ParquetFinal(partition_value) == Path("processed", partition_value, "data.parquet")

ParquetDir(partition_value) == Path("processed", partition_value, "")

\* summary.get('date', 'run')
SummaryDate(summary) ==
    IF "date" \in DOMAIN summary THEN summary["date"] ELSE PyStr("run")

SummaryFinal(summary) == Path("summaries", SummaryDate(summary), "summary_{}.json")

\* Mutant: the summary is written in place.
SummaryTmp_in_place(summary) == SummaryFinal(summary)

SummaryTmp(summary) == Path("summaries", SummaryDate(summary), "summary_{}.json.tmp")

BadRowsFinal(name) == Path("bad_rows", name, "{}.csv")

BadRowsTmp(name) == Path("bad_rows", name, ".{}.csv.tmp")

\* A call of a writer: its arguments, the statement it is at (at) and the
\* local outdir_tmp.  kind is "parquet", "summary" or "bad_rows"; data is the
\* table (the summary dict is the one row of a table); key is the
\* partition_value or the name.
WriterCall(kind, data, key) ==
    [kind |-> kind, data |-> data, key |-> key, at |-> 1,
     outdir_tmp |-> Path("", None, "")]

NoCall == [kind |-> "none", data |-> EmptyFrame, key |-> None, at |-> 0,
           outdir_tmp |-> Path("", None, "")]

\* The ways a call ends: it returns, it raises, or the process dies.
Returned == 100
Failed == 101
Crashed == 102

FinalPathOf(c) ==
    CASE c.kind = "parquet" -> ParquetFinal(c.key)
      [] c.kind = "summary" -> SummaryFinal(c.data.rows[1])
      [] c.kind = "bad_rows" -> BadRowsFinal(c.key)

TmpPathOf(c) ==
    CASE c.kind = "parquet" -> Path(c.outdir_tmp.dir, c.outdir_tmp.sub, "data.parquet")
      [] c.kind = "summary" -> SummaryTmp(c.data.rows[1])
      [] c.kind = "bad_rows" -> BadRowsTmp(c.key)

\* One statement of write_parquet_partition.
ParquetStep(files, c) ==
    CASE c.at = 1 ->  \* outdir_tmp = Path(tempfile.mkdtemp(...))
           LET d == mkdtemp(files)
           IN [files |-> Put(files, d, "dir", EmptyFrame),
               call |-> [c EXCEPT !.at = 2, !.outdir_tmp = d]]
      [] c.at = 2 ->  \* df.to_parquet(tmp_file) opens the file
           [files |-> Put(files, TmpPathOf(c), "partial", c.data),
            call |-> [c EXCEPT !.at = 3]]
      [] c.at = 3 ->  \* ... and closes it
           [files |-> Put(files, TmpPathOf(c), "complete", c.data),
            call |-> [c EXCEPT !.at = 4]]
      [] c.at = 4 ->  \* outdir.mkdir(parents=True, exist_ok=True)
           [files |-> mkdir(files, ParquetDir(c.key)),
            call |-> [c EXCEPT !.at = 5]]
      [] c.at = 5 ->  \* _atomic_write_file(tmp_file, final_file)
           [files |-> replace(mkdir(files, ParquetDir(c.key)),
                              TmpPathOf(c), FinalPathOf(c)),
            call |-> [c EXCEPT !.at = 6]]
      [] c.at = 6 ->  \* finally: shutil.rmtree(outdir_tmp)
           [files |-> rmtree(files, c.outdir_tmp),
            call |-> [c EXCEPT !.at = Returned]]

\* One statement of write_summary_json.
SummaryStep(files, c) ==
    CASE c.at = 1 ->  \* outdir.mkdir(parents=True, exist_ok=True)
           [files |-> mkdir(files, Path("summaries", None, "")),
            call |-> [c EXCEPT !.at = 2]]
      [] c.at = 2 ->  \* open(tmp, 'w')
           [files |-> Put(files, TmpPathOf(c), "partial", c.data),
            call |-> [c EXCEPT !.at = 3]]
      [] c.at = 3 ->  \* json.dump(summary, f) and the end of the with block
           [files |-> Put(files, TmpPathOf(c), "complete", c.data),
            call |-> [c EXCEPT !.at = 4]]
      [] c.at = 4 ->  \* os.replace(tmp, final)
           [files |-> replace(files, TmpPathOf(c), FinalPathOf(c)),
            call |-> [c EXCEPT !.at = Returned]]

\* One statement of write_bad_rows_csv.
BadRowsStep(files, c) ==
    CASE c.at = 1 ->  \* outdir.mkdir(...); if bad_df.empty: return None
           [files |-> mkdir(files, Path("bad_rows", None, "")),
            call |-> [c EXCEPT !.at = IF empty(c.data) THEN Returned ELSE 2]]
      [] c.at = 2 ->  \* bad_df.to_csv(tmp) opens the file
           [files |-> Put(files, TmpPathOf(c), "partial", c.data),
            call |-> [c EXCEPT !.at = 3]]
      [] c.at = 3 ->  \* ... and closes it
           [files |-> Put(files, TmpPathOf(c), "complete", c.data),
            call |-> [c EXCEPT !.at = 4]]
      [] c.at = 4 ->  \* os.replace(tmp, target)
           [files |-> replace(files, TmpPathOf(c), FinalPathOf(c)),
            call |-> [c EXCEPT !.at = Returned]]

WriterStep(files, c) ==
    CASE c.kind = "parquet" -> ParquetStep(files, c)
      [] c.kind = "summary" -> SummaryStep(files, c)
      [] c.kind = "bad_rows" -> BadRowsStep(files, c)

Running(c) == c.kind # "none" /\ c.at \notin {0, Returned, Failed, Crashed}

\* The write of the temporary file raises (the disk is full, the value cannot
\* be serialised): write_parquet_partition runs its finally block, the other
\* two writers have none.
WriterRaise(files, c) ==
    [files |-> IF c.kind = "parquet" THEN rmtree(files, c.outdir_tmp) ELSE files,
     call |-> [c EXCEPT !.at = Failed]]

\* The call run to its return.
RECURSIVE RunWriter(_, _)
RunWriter(files, c) ==
    IF Running(c)
    THEN CHOOSE out \in { RunWriter(r.files, r.call) : r \in {WriterStep(files, c)} } : TRUE
    ELSE files

\* The value the writer returns: its final path; None for an empty bad-rows table.
WriterResult(c) ==
    IF c.kind = "bad_rows" /\ empty(c.data) THEN Path("", None, "")
    ELSE FinalPathOf(c)

----------------------------------------------------------------------------
(* cli.run_for_date, a stage a step *)

DateNoDash(d) == DateStr("%Y%m%d", d)

\* A file of the data directory: absent, or a table.
MissingFile == [exists |-> FALSE, df |-> EmptyFrame]

CsvFile(columns, rows) == [exists |-> TRUE, df |-> [columns |-> columns, rows |-> rows]]

\* The outcome run_for_date hands its caller: a summary dict or an exception.
NoSummary ==
    [date |-> None, rows |-> None, revenue |-> None, bad_rows |-> None,
     parquet_path |-> None]

NoOutcome == [kind |-> "none", summary |-> NoSummary, error |-> ""]

Raises(message) == [kind |-> "error", summary |-> NoSummary, error |-> message]

Returns(summary) == [kind |-> "summary", summary |-> summary, error |-> ""]

\* The locals of run_for_date; pc is the stage it is at.
IdleFrame ==
    [pc |-> "idle", day |-> 0, dry_run |-> FALSE, fs0 |-> {},
     products_df |-> EmptyFrame, parsed |-> NoResult, valid |-> NoResult,
     bad_orders_df |-> EmptyFrame, enriched |-> EmptyFrame,
     total_revenue |-> 0, rows_processed |-> 0]

\* run_for_date(date_str, data_dir, output_dir, dry_run) is entered.
NewFrame(day, dry_run, files) ==
    [IdleFrame EXCEPT !.pc = "reading-products", !.day = day,
                      !.dry_run = dry_run, !.fs0 = files]

\* Mutant: the dry-run flag is ignored.
ShouldWrite_always(dry_run) == TRUE

\* if not dry_run:
ShouldWrite(dry_run) == ~dry_run

\* Mutant: the parse failures are left out of the bad rows.
combine_bad_validation_only(orders_parsed_bad, orders_valid_bad) == orders_valid_bad

\* bad_rows_combined / pd.concat(..., ignore_index=True); None is the empty frame.
combine_bad(orders_parsed_bad, orders_valid_bad) ==
    IF empty(orders_parsed_bad) /\ empty(orders_valid_bad) THEN EmptyFrame
    ELSE IF empty(orders_parsed_bad) THEN orders_valid_bad
    ELSE IF empty(orders_valid_bad) THEN orders_parsed_bad
    ELSE concat(orders_parsed_bad, orders_valid_bad)

\* f"orders-{date_str}-bad"
BadOrdersName(day) == DateStr("orders-%Y%m%d-bad", day)

\* str(parquet_path)
PathStr(p) == DateStr("processed/date=%Y-%m-%d/data.parquet", p.sub.n)

\* write_bad_rows_csv(table, name, out_base / "bad_rows"), when the table is
\* not empty and the run is no dry run.
FlushBadRows(files, table, name, dry_run) ==
    IF ~empty(table) /\ ShouldWrite(dry_run)
    THEN RunWriter(files, WriterCall("bad_rows", table, name))
    ELSE files

\* Stage 1: read_products, and the quarantine of its bad rows.
ReadProductsStage(f, files, products) ==
    IF ~products.exists
    THEN [frame |-> [f EXCEPT !.pc = "raised"], files |-> files,
          outcome |-> Raises("products.csv not found")]
    ELSE LET products_bad == EmptyFrame
         IN [frame |-> [f EXCEPT !.pc = "reading-orders", !.products_df = products.df],
             files |-> FlushBadRows(files, products_bad, PyStr("products-bad"), f.dry_run),
             outcome |-> NoOutcome]

\* Stage 2: read_orders_for_date.
ReadOrdersStage(f, files, orders) ==
    IF ~orders.exists
    THEN [frame |-> [f EXCEPT !.pc = "raised"], files |-> files,
          outcome |-> Raises("No order file for date")]
    ELSE LET r == parse_date_column(orders.df, "order_date")
         IN IF r.raised
            THEN [frame |-> [f EXCEPT !.pc = "raised"], files |-> files,
                  outcome |-> Raises("Column 'order_date' not in dataframe")]
            ELSE [frame |-> [f EXCEPT !.pc = "validating",
                                      !.parsed = [good |-> r.good, bad |-> r.bad]],
                  files |-> files, outcome |-> NoOutcome]

\* Stage 3: validate_dataframe, and the union of the bad rows.
ValidateStage(f, files) ==
    LET v == validate_dataframe(f.parsed.good, OrderSchema)
    IN [frame |-> [f EXCEPT !.valid = v,
                            !.bad_orders_df = combine_bad(f.parsed.bad, v.bad),
                            !.pc = IF empty(v.good) THEN "no-valid-rows"
                                   ELSE "transforming"],
        files |-> files, outcome |-> NoOutcome]

\* Stage 4: no valid orders.
NoValidRowsStage(f, files) ==
    [frame |-> [f EXCEPT !.pc = "done"],
     files |-> FlushBadRows(files, f.bad_orders_df, BadOrdersName(f.day), f.dry_run),
     outcome |-> Returns([date |-> DateNoDash(f.day), rows |-> PyInt(0),
                          revenue |-> PyFloat(0),
                          bad_rows |-> PyInt(len(f.bad_orders_df)),
                          parquet_path |-> None])]

\* Stage 5: add_order_total.
AddOrderTotalStage(f, files) ==
    LET a == add_order_total(f.valid.good)
    IN IF a.raised
       THEN [frame |-> [f EXCEPT !.pc = "raised"], files |-> files,
             outcome |-> Raises("AttributeError")]
       ELSE [frame |-> [f EXCEPT !.pc = "joining", !.enriched = a.df],
             files |-> files, outcome |-> NoOutcome]

\* Stage 6: enrich_with_products.
EnrichStage(f, files) ==
    LET b == enrich_with_products(f.enriched, f.products_df)
    IN IF b.raised
       THEN [frame |-> [f EXCEPT !.pc = "raised"], files |-> files,
             outcome |-> Raises("MergeError")]
       ELSE [frame |-> [f EXCEPT !.pc = "dating", !.enriched = b.df],
             files |-> files, outcome |-> NoOutcome]

\* Stage 7: add_order_date_iso.
AddOrderDateIsoStage(f, files) ==
    LET c == add_order_date_iso(f.enriched, "order_date", "order_date_iso")
    IN IF c.raised
       THEN [frame |-> [f EXCEPT !.pc = "raised"], files |-> files,
             outcome |-> Raises("KeyError")]
       ELSE [frame |-> [f EXCEPT !.pc = "summing", !.enriched = c.df],
             files |-> files, outcome |-> NoOutcome]

\* Stage 8: the metrics of the summary.
MetricsStage(f, files) ==
    [frame |-> [f EXCEPT !.pc = "writing",
                         !.total_revenue =
                             IF "order_total" \in f.enriched.columns
                             THEN round2(SumColumn(f.enriched.rows, "order_total"))
                             ELSE 0,
                         !.rows_processed = len(f.enriched)],
     files |-> files, outcome |-> NoOutcome]

\* Stages 9-10: the three writers (unless dry_run) and the summary returned.
WriteStage(f, files) ==
    LET partition_value == f.enriched.rows[1]["order_date_iso"]
        summary_obj == [date |-> partition_value, rows |-> PyInt(f.rows_processed),
                        revenue |-> PyFloat(f.total_revenue)]
        parquet == WriterCall("parquet", f.enriched, partition_value)
        files1 == RunWriter(files, parquet)
        files2 == RunWriter(files1, WriterCall("summary", DataFrame(<<summary_obj>>), None))
        files3 == FlushBadRows(files2, f.bad_orders_df, BadOrdersName(f.day), f.dry_run)
    IN IF ShouldWrite(f.dry_run) /\ empty(f.enriched)
       THEN \* enriched['order_date_iso'].iloc[0] of a table without rows
            [frame |-> [f EXCEPT !.pc = "raised"], files |-> files,
             outcome |-> Raises("IndexError")]
       ELSE
       [frame |-> [f EXCEPT !.pc = "done"],
        files |-> IF ShouldWrite(f.dry_run) THEN files3 ELSE files,
        outcome |-> Returns([date |-> DateNoDash(f.day),
                             rows |-> PyInt(f.rows_processed),
                             revenue |-> PyFloat(f.total_revenue),
                             bad_rows |-> PyInt(len(f.bad_orders_df)),
                             parquet_path |->
                                 IF ShouldWrite(f.dry_run)
                                 THEN PathStr(WriterResult(parquet)) ELSE None])]

----------------------------------------------------------------------------
(* The data directory *)

Days == 1..MaxDays

ProductRow(id, name, category, price) ==
    [product_id |-> PyInt(id), product_name |-> PyStr(name), category |-> category,
     price |-> PyFloat(price)]

ProductColumns == {"product_id", "product_name", "category", "price"}

\* products.csv: absent; one product; two products, one without a category;
\* the same product_id twice; a product with a negative price.
ProductFiles ==
    { MissingFile,
      CsvFile(ProductColumns, <<ProductRow(1001, "Classic Tee", PyStr("Apparel"), 19990)>>),
      CsvFile(ProductColumns, <<ProductRow(1001, "Classic Tee", PyStr("Apparel"), 19990),
                                ProductRow(1002, "Mug", NaN, 5000)>>),
      CsvFile(ProductColumns, <<ProductRow(1001, "Classic Tee", PyStr("Apparel"), 19990),
                                ProductRow(1001, "Classic Tee II", PyStr("Apparel"), 21000)>>),
      CsvFile(ProductColumns, <<ProductRow(1001, "Classic Tee", PyStr("Apparel"), 19990),
                                ProductRow(1003, "Broken", PyStr("Apparel"), -1000)>>) }

OrderRow(date, product_id, qty, unit_price) ==
    [order_id |-> PyInt(0), order_date |-> date, product_id |-> PyInt(product_id),
     qty |-> PyInt(qty), unit_price |-> PyFloat(unit_price),
     user_id |-> PyInt(9001), order_status |-> PyStr("completed")]

OrderColumns == { f.name : f \in OrderSchema }

\* The rows an order file of day d is made of: a row whose date no parser
\* accepts, rows with a negative qty, and valid rows of a known and of an
\* unknown product, with a price in cents or below a cent.
OrderRows(d) ==
    { OrderRow(DateStr(NoFormat, 0), 1001, 1, 2000) }
    \cup { OrderRow(DateStr(fmt, d), 1001, -1, 2000) : fmt \in {IsoFormat, FlexFormat} }
    \cup { OrderRow(DateStr(fmt, d), x[1], x[2], x[3]) :
           fmt \in {IsoFormat, FlexFormat},
           x \in { <<1001, 1, 2000>>, <<1001, 1, 4>>, <<1002, 3, 4>>, <<1002, 1, 2000>> } }

\* read_csv numbers nothing: order_id is the row's place in the file.
Numbered(rows) == [i \in 1..Len(rows) |-> [rows[i] EXCEPT !["order_id"] = PyInt(i)]]

\* An order file without the order_date column.
NoDateColumnFile ==
    CsvFile(OrderColumns \ {"order_date"},
            <<[c \in OrderColumns \ {"order_date"} |->
                 OrderRow(NaN, 1001, 1, 2000)[c]]>>)

OrderFiles(d) ==
    { MissingFile, NoDateColumnFile }
    \cup UNION { { CsvFile(OrderColumns, Numbered(rows)) : rows \in [1..n -> OrderRows(d)] } :
                 n \in 0..MaxOrderRows }

\* The order files of MainSpec.
FewOrderFiles(d) ==
    { MissingFile, NoDateColumnFile,
      CsvFile(OrderColumns, Numbered(<<OrderRow(DateStr(IsoFormat, d), 1001, 1, 2000)>>)),
      CsvFile(OrderColumns, Numbered(<<OrderRow(DateStr(NoFormat, 0), 1001, 1, 2000)>>)),
      CsvFile(OrderColumns, Numbered(<<OrderRow(DateStr(FlexFormat, d), 1002, 3, 4),
                                       OrderRow(DateStr(IsoFormat, d), 1001, -1, 2000)>>)) }

----------------------------------------------------------------------------
(* The stages of run_for_date as actions, and its two callers *)

\* Mutant: the loop steps two days.
next_day_skips(cur) == cur + 2

\* cur = cur + timedelta(days=1)
next_day(cur) == cur + 1

\* results[ds] = res
SetResult(results, ds, res) ==
    { e \in results : e.ds # ds } \cup {[ds |-> ds, res |-> res]}

MainIdle ==
    [pc |-> "idle", start |-> 0, end |-> 0, cur |-> 0, dry_run |-> FALSE,
     results |-> {}, called |-> <<>>]

RunStage(stage) ==
    /\ \E r \in {stage} :
         /\ frame' = r.frame
         /\ fs' = r.files
         /\ ret' = r.outcome
    /\ UNCHANGED <<data_dir, returned, task_calls, main, notPipeline>>

ReadProducts ==
    /\ frame.pc = "reading-products"
    /\ RunStage(ReadProductsStage(frame, fs, data_dir.products))

ReadOrders ==
    /\ frame.pc = "reading-orders"
    /\ RunStage(ReadOrdersStage(frame, fs, data_dir.orders[frame.day]))

Validate ==
    /\ frame.pc = "validating"
    /\ RunStage(ValidateStage(frame, fs))

NoValidRows ==
    /\ frame.pc = "no-valid-rows"
    /\ RunStage(NoValidRowsStage(frame, fs))

AddOrderTotal ==
    /\ frame.pc = "transforming"
    /\ RunStage(AddOrderTotalStage(frame, fs))

Enrich ==
    /\ frame.pc = "joining"
    /\ RunStage(EnrichStage(frame, fs))

AddOrderDateIso ==
    /\ frame.pc = "dating"
    /\ RunStage(AddOrderDateIsoStage(frame, fs))

Metrics ==
    /\ frame.pc = "summing"
    /\ RunStage(MetricsStage(frame, fs))

Write ==
    /\ frame.pc = "writing"
    /\ RunStage(WriteStage(frame, fs))

Ended == frame.pc \in {"done", "raised"}

\* The task of the DAG (run_quickshop_etl) and the tests call run_for_date
\* for one date; the scheduler runs the task again.
TaskCall ==
    /\ frame.pc = "idle"
    /\ task_calls < MaxTaskCalls
    /\ \E dry_run \in BOOLEAN : frame' = NewFrame(1, dry_run, fs)
    /\ task_calls' = task_calls + 1
    /\ UNCHANGED <<data_dir, ret, returned, main, fs, notPipeline>>

TaskCollect ==
    /\ Ended
    /\ returned' = [returned EXCEPT ![frame.dry_run] = ret]
    /\ frame' = IdleFrame
    /\ ret' = NoOutcome
    /\ UNCHANGED <<data_dir, task_calls, main, fs, notPipeline>>

\* main: while cur <= end_dt: ds = cur.strftime("%Y%main%d"); try: run_for_date(ds, ...)
MainCall ==
    /\ main.pc = "loop"
    /\ main.cur <= main.end
    /\ frame' = NewFrame(main.cur, main.dry_run, fs)
    /\ main' = [main EXCEPT !.pc = "calling", !.called = Append(@, main.cur)]
    /\ UNCHANGED <<data_dir, ret, returned, task_calls, fs, notPipeline>>

\* results[ds] = res, or {"error": str(e)} in the except clause; cur + 1 day.
MainCollect ==
    /\ main.pc = "calling"
    /\ Ended
    /\ main' = [main EXCEPT !.pc = "loop", !.cur = next_day(@),
                            !.results = SetResult(@, DateNoDash(main.cur), ret)]
    /\ frame' = IdleFrame
    /\ ret' = NoOutcome
    /\ UNCHANGED <<data_dir, returned, task_calls, fs, notPipeline>>

\* The loop ends: print(results).
MainExit ==
    /\ main.pc = "loop"
    /\ main.cur > main.end
    /\ main' = [main EXCEPT !.pc = "done"]
    /\ UNCHANGED <<data_dir, frame, ret, returned, task_calls, fs, notPipeline>>

PIdle ==
    /\ data_dir = [products |-> MissingFile, orders |-> [d \in Days |-> MissingFile]]
    /\ frame = IdleFrame
    /\ ret = NoOutcome
    /\ returned = [dry_run \in BOOLEAN |-> NoOutcome]
    /\ task_calls = 0
    /\ main = MainIdle

----------------------------------------------------------------------------
(* RaceSpec: two runs call the same writer for the same target, and their *)
(* statements interleave                                                    *)

Runs == {1, 2}

\* The disk of the two runs: names is the set of [path, ino] (ino 0 for a
\* directory), inodes the bytes of each file, by ino.  A file is written in
\* two write() calls; the bytes not written yet are None.
EmptyDisk == [names |-> {}, inodes |-> <<>>]

Truncated == <<None, None>>

\* The bytes a writer writes for its table, in two halves.
Serialized(c) ==
    IF c.kind = "summary"
    THEN <<c.data.rows[1]["rows"], c.data.rows[1]["revenue"]>>
    ELSE <<c.data.rows[1]["order_id"], c.data.rows[2]["order_id"]>>

InodeOf(d, p) == (CHOOSE e \in d.names : e.path = p).ino

\* The bytes of the file named p.
BytesAt(d, p) == d.inodes[InodeOf(d, p)]

\* Path.mkdir(parents=True, exist_ok=True) on the disk of the two runs.
disk_mkdir(d, p) ==
    [d EXCEPT !.names = @ \cup { [path |-> q, ino |-> 0] :
                                 q \in { q \in {Path(p.dir, None, ""), p} : ~exists(d.names, q) } }]

\* open(p, 'w'): the file p names is truncated, or a new file is created;
\* fd is its inode.
disk_open(d, p) ==
    IF exists(d.names, p)
    THEN [disk |-> [d EXCEPT !.inodes[InodeOf(d, p)] = Truncated], fd |-> InodeOf(d, p)]
    ELSE [disk |-> [names |-> d.names \cup {[path |-> p, ino |-> Len(d.inodes) + 1]},
                    inodes |-> Append(d.inodes, Truncated)],
          fd |-> Len(d.inodes) + 1]

\* write(fd, ...) of the k-th half: the bytes go to the inode, whatever its name.
disk_write(d, fd, k, bytes) == [d EXCEPT !.inodes[fd][k] = bytes[k]]

\* os.replace(src, dst), src being there.
disk_replace(d, src, dst) ==
    [d EXCEPT !.names = { e \in @ : e.path \notin {src, dst} }
                        \cup {[path |-> dst, ino |-> InodeOf(d, src)]}]

RaceCall(kind, data, key) ==
    [kind |-> kind, data |-> data, key |-> key, at |-> 1,
     outdir_tmp |-> Path("", None, ""), fd |-> 0, failed |-> FALSE]

NoRaceCall == [RaceCall("none", EmptyFrame, None) EXCEPT !.at = 0]

\* One statement of write_summary_json or of write_bad_rows_csv.
RaceInPlaceStep(d, c) ==
    CASE c.at = 1 ->  \* outdir.mkdir(parents=True, exist_ok=True)
           [disk |-> disk_mkdir(d, Path(FinalPathOf(c).dir, None, "")),
            call |-> [c EXCEPT !.at = IF c.kind = "bad_rows" /\ empty(c.data)
                                      THEN Returned ELSE 2]]
      [] c.at = 2 ->  \* open(tmp, 'w') / to_csv(tmp) opens the file
           LET o == disk_open(d, TmpPathOf(c))
           IN [disk |-> o.disk, call |-> [c EXCEPT !.at = 3, !.fd = o.fd]]
      [] c.at = 3 ->  \* the first half is written
           [disk |-> disk_write(d, c.fd, 1, Serialized(c)),
            call |-> [c EXCEPT !.at = 4]]
      [] c.at = 4 ->  \* the second half is written and the file closed
           [disk |-> disk_write(d, c.fd, 2, Serialized(c)),
            call |-> [c EXCEPT !.at = 5]]
      [] c.at = 5 ->  \* os.replace(tmp, final); FileNotFoundError when tmp is gone
           IF exists(d.names, TmpPathOf(c))
           THEN [disk |-> disk_replace(d, TmpPathOf(c), FinalPathOf(c)),
                 call |-> [c EXCEPT !.at = Returned]]
           ELSE [disk |-> d, call |-> [c EXCEPT !.at = Failed, !.failed = TRUE]]

\* One statement of write_parquet_partition.
RaceParquetStep(d, c) ==
    CASE c.at = 1 ->  \* outdir_tmp = Path(tempfile.mkdtemp(...))
           LET t == mkdtemp(d.names)
           IN [disk |-> [d EXCEPT !.names = @ \cup {[path |-> t, ino |-> 0]}],
               call |-> [c EXCEPT !.at = 2, !.outdir_tmp = t]]
      [] c.at = 2 ->  \* df.to_parquet(tmp_file) opens the file
           LET o == disk_open(d, TmpPathOf(c))
           IN [disk |-> o.disk, call |-> [c EXCEPT !.at = 3, !.fd = o.fd]]
      [] c.at = 3 ->
           [disk |-> disk_write(d, c.fd, 1, Serialized(c)),
            call |-> [c EXCEPT !.at = 4]]
      [] c.at = 4 ->
           [disk |-> disk_write(d, c.fd, 2, Serialized(c)),
            call |-> [c EXCEPT !.at = 5]]
      [] c.at = 5 ->  \* outdir.mkdir(parents=True, exist_ok=True)
           [disk |-> disk_mkdir(d, ParquetDir(c.key)),
            call |-> [c EXCEPT !.at = 6]]
      [] c.at = 6 ->  \* _atomic_write_file(tmp_file, final_file)
           IF exists(d.names, TmpPathOf(c))
           THEN [disk |-> disk_replace(disk_mkdir(d, ParquetDir(c.key)),
                                       TmpPathOf(c), FinalPathOf(c)),
                 call |-> [c EXCEPT !.at = 7]]
           ELSE [disk |-> d, call |-> [c EXCEPT !.at = 7, !.failed = TRUE]]
      [] c.at = 7 ->  \* finally: shutil.rmtree(outdir_tmp)
           [disk |-> [d EXCEPT !.names = rmtree(@, c.outdir_tmp)],
            call |-> [c EXCEPT !.at = IF c.failed THEN Failed ELSE Returned]]

RIdle ==
    /\ disk = EmptyDisk
    /\ runs = [r \in Runs |-> NoRaceCall]

----------------------------------------------------------------------------
(* TransformSpec: add_order_total is not in use *)

TIdle ==
    /\ t_in = EmptyFrame
    /\ t_out = [raised |-> FALSE, df |-> EmptyFrame]
    /\ t_pc = "idle"

----------------------------------------------------------------------------
(* WriterSpec: one process calls the writers, one after the other; it may *)
(* die between any two statements, and a new process then goes on          *)

SampleTable(v) == DataFrame(<<[order_id |-> PyInt(v)]>>)

SampleSummary(withDate, rows) ==
    LET body == [rows |-> PyInt(rows), revenue |-> PyFloat(rows * 2000)]
    IN DataFrame(<<IF withDate THEN ("date" :> DateStr(IsoFormat, 1)) @@ body
                   ELSE body>>)

SampleCalls ==
    { WriterCall("parquet", SampleTable(v), DateStr(IsoFormat, 1)) : v \in {1, 2} }
    \cup { WriterCall("summary", SampleSummary(TRUE, r), None) : r \in {1, 2} }
    \cup { WriterCall("summary", SampleSummary(FALSE, 1), None) }
    \cup { WriterCall("bad_rows", t, DateStr("orders-%Y%m%d-bad", 1)) :
           t \in {SampleTable(1), EmptyFrame} }

VIdle ==
    /\ v_schema = "order"
    /\ v_raw = EmptyFrame
    /\ v_parsed = NoResult
    /\ v_valid = NoResult
    /\ v_pc = "idle"

WIdle ==
    /\ w = NoCall
    /\ w_before = {}
    /\ w_prev = NoCall
    /\ w_calls = 0

WriterInit ==
    /\ VIdle
    /\ PIdle
    /\ TIdle
    /\ RIdle
    /\ WIdle
    /\ fs = {}

\* The process calls a writer.
WCall ==
    /\ ~Running(w)
    /\ w_calls < MaxWriterCalls
    /\ \E c \in SampleCalls : w' = c
    /\ w_prev' = IF w.at = Returned THEN w ELSE NoCall
    /\ w_before' = fs
    /\ w_calls' = w_calls + 1
    /\ UNCHANGED <<fs, notWriter>>

\* The writer executes its next statement.
WStep ==
    /\ Running(w)
    /\ LET r == WriterStep(fs, w)
       IN fs' = r.files /\ w' = r.call
    /\ UNCHANGED <<w_before, w_prev, w_calls, notWriter>>

\* The write of the temporary file raises: the call has opened the file and
\* has not closed it.
WRaise ==
    /\ Running(w)
    /\ w.at = 3
    /\ exists(fs, TmpPathOf(w))
    /\ Entry(fs, TmpPathOf(w)).state = "partial"
    /\ LET r == WriterRaise(fs, w)
       IN fs' = r.files /\ w' = r.call
    /\ UNCHANGED <<w_before, w_prev, w_calls, notWriter>>

\* The process dies: nothing more of the call is executed.
WCrash ==
    /\ Running(w)
    /\ w' = [w EXCEPT !.at = Crashed]
    /\ UNCHANGED <<fs, w_before, w_prev, w_calls, notWriter>>

----------------------------------------------------------------------------
(* ValidateSpec: a table is read, its date column parsed, its rows validated *)

Schemas == {"order", "product", "inventory"}

SchemaOf(name) ==
    CASE name = "order" -> OrderSchema
      [] name = "product" -> ProductSchema
      [] name = "inventory" -> InventorySchema

\* The column the reader of each file parses as a date ("" for products.csv).
DateColumnOf(name) ==
    CASE name = "order" -> "order_date"
      [] name = "product" -> ""
      [] name = "inventory" -> "last_restock_date"

\* The date strings of the sample rows (all of calendar day 1).
RawDates ==
    { DateStr(IsoFormat, 1), DateStr(FlexFormat, 1), DateStr(NoFormat, 0) }

\* Sample rows of each file, as read_csv returns them; i is the row's key.
SampleRows(name, i) ==
    CASE name = "order" ->
           { [order_id |-> PyInt(i), order_date |-> d, product_id |-> PyInt(1001),
              qty |-> q, unit_price |-> p, user_id |-> u,
              order_status |-> PyStr("completed")] :
             d \in RawDates, q \in {PyInt(-1), PyInt(2), NaN},
             p \in {PyFloat(-1000), PyFloat(19990)},
             u \in {PyInt(9001), NaN} }
      [] name = "product" ->
           { [product_id |-> PyInt(1000 + i), product_name |-> PyStr("Classic Tee"),
              category |-> PyStr("Apparel"), price |-> p] :
             p \in {PyFloat(-10000), PyFloat(19990), PyInt(0), NaN} }
      [] name = "inventory" ->
           { [product_id |-> PyInt(1000 + i), warehouse_id |-> PyStr("W1"),
              stock_on_hand |-> s, last_restock_date |-> d] :
             s \in {PyInt(-5), PyInt(120), NaN}, d \in RawDates }

ColumnsOf(name) == { f.name : f \in SchemaOf(name) }

SampleTables(name) ==
    UNION { { [columns |-> ColumnsOf(name), rows |-> rows] :
              rows \in { t \in [1..n -> UNION {SampleRows(name, i) : i \in 1..n}] :
                         \A i \in 1..n : t[i] \in SampleRows(name, i) } } :
            n \in 0..MaxTableRows }

VInit ==
    /\ WIdle
    /\ PIdle
    /\ TIdle
    /\ RIdle
    /\ fs = {}
    /\ v_schema \in Schemas
    /\ v_raw \in SampleTables(v_schema)
    /\ v_parsed = NoResult
    /\ v_valid = NoResult
    /\ v_pc = "read"

\* read_orders_for_date / read_inventory parse the date column; read_products
\* returns the table and an empty frame.
VParse ==
    /\ v_pc = "read"
    /\ v_parsed' =
         IF DateColumnOf(v_schema) = ""
         THEN [good |-> v_raw, bad |-> EmptyFrame]
         ELSE LET r == parse_date_column(v_raw, DateColumnOf(v_schema))
              IN [good |-> r.good, bad |-> r.bad]
    /\ v_pc' = "parsed"
    /\ UNCHANGED <<v_schema, v_raw, v_valid, notValidate>>

VValidate ==
    /\ v_pc = "parsed"
    /\ v_valid' = validate_dataframe(v_parsed.good, SchemaOf(v_schema))
    /\ v_pc' = "validated"
    /\ UNCHANGED <<v_schema, v_raw, v_parsed, notValidate>>

vars == <<vvars, fs, wvars, pvars, tvars, rvars>>

ValidateInit == VInit

ValidateNext == VParse \/ VValidate

ValidateSpec == ValidateInit /\ [][ValidateNext]_vars

\* Spec: the task runs run_for_date for day 1, up to MaxTaskCalls times, with
\* or without dry_run, on a data_dir directory that does not change.
Init ==
    /\ VIdle
    /\ WIdle
    /\ TIdle
    /\ RIdle
    /\ fs = {}
    /\ \E p \in ProductFiles, o \in OrderFiles(1) :
         data_dir = [products |-> p,
                 orders |-> [d \in Days |-> IF d = 1 THEN o ELSE MissingFile]]
    /\ frame = IdleFrame
    /\ ret = NoOutcome
    /\ returned = [dry_run \in BOOLEAN |-> NoOutcome]
    /\ task_calls = 0
    /\ main = MainIdle

Next ==
    \/ TaskCall
    \/ ReadProducts
    \/ ReadOrders
    \/ Validate
    \/ NoValidRows
    \/ AddOrderTotal
    \/ Enrich
    \/ AddOrderDateIso
    \/ Metrics
    \/ Write
    \/ TaskCollect

Spec == Init /\ [][Next]_vars

\* MainSpec: main runs the range start..end once.
MainInit ==
    /\ VIdle
    /\ WIdle
    /\ TIdle
    /\ RIdle
    /\ fs = {}
    /\ data_dir \in { [products |-> p, orders |-> o] :
                   p \in ProductFiles,
                   o \in { f \in [Days -> UNION { FewOrderFiles(d) : d \in Days }] :
                           \A d \in Days : f[d] \in FewOrderFiles(d) } }
    /\ frame = IdleFrame
    /\ ret = NoOutcome
    /\ returned = [dry_run \in BOOLEAN |-> NoOutcome]
    /\ task_calls = 0
    /\ \E start \in Days, end \in Days, dry_run \in BOOLEAN :
         main = [pc |-> "loop", start |-> start, end |-> end, cur |-> start,
              dry_run |-> dry_run, results |-> {}, called |-> <<>>]

MainNext ==
    \/ MainCall
    \/ ReadProducts
    \/ ReadOrders
    \/ Validate
    \/ NoValidRows
    \/ AddOrderTotal
    \/ Enrich
    \/ AddOrderDateIso
    \/ Metrics
    \/ Write
    \/ MainCollect
    \/ MainExit

\* The program is sequential and keeps running: what is enabled is taken.
MainSpec == MainInit /\ [][MainNext]_vars /\ WF_vars(MainNext)

\* TransformSpec: add_order_total is given a table.
\* The quantities (whole numbers, read as int64 or as float64) and the unit
\* prices (in cents, below a cent, read as int64) of the rows of the table.
SampleQuantities == {PyInt(0), PyInt(3), PyFloat(2000)}
SamplePrices == {PyFloat(4), PyFloat(19990), PyInt(10)}

TotalColumns == {"order_id", "product_id", "qty", "unit_price", "order_status"}

\* The rows of test_add_order_total, with a column of strings where a value
\* may be missing.
TotalRows ==
    { [order_id |-> PyInt(0), product_id |-> PyInt(1001), qty |-> q, unit_price |-> p,
       order_status |-> st] :
      q \in SampleQuantities, p \in SamplePrices, st \in {PyStr("completed"), NaN} }

TransformInit ==
    /\ VIdle
    /\ WIdle
    /\ PIdle
    /\ RIdle
    /\ fs = {}
    /\ t_in \in UNION { { [columns |-> TotalColumns, rows |-> Numbered(rows)] :
                          rows \in [1..n -> TotalRows] } : n \in 1..MaxTableRows }
    /\ t_out = [raised |-> FALSE, df |-> EmptyFrame]
    /\ t_pc = "given"

\* out = add_order_total(df)
TAddOrderTotal ==
    /\ t_pc = "given"
    /\ \E r \in {add_order_total(t_in)} :
         /\ t_out' = r
         /\ t_pc' = IF r.raised THEN "raised" ELSE "returned"
    /\ UNCHANGED <<t_in, notTransform>>

\* RaceSpec: the two runs write the tables of their inputs (the same or not)
\* to the same target.
RaceTables == { DataFrame(<<[order_id |-> PyInt(a)], [order_id |-> PyInt(a + 1)]>>) : a \in {1, 3} }

RaceSummaries == { SampleSummary(TRUE, n) : n \in {1, 2} }

RaceInit ==
    /\ VIdle
    /\ WIdle
    /\ PIdle
    /\ TIdle
    /\ fs = {}
    /\ disk = EmptyDisk
    /\ \/ \E a, b \in RaceTables :
            runs = (1 :> RaceCall("parquet", a, DateStr(IsoFormat, 1)))
                   @@ (2 :> RaceCall("parquet", b, DateStr(IsoFormat, 1)))
       \/ \E a, b \in RaceSummaries :
            runs = (1 :> RaceCall("summary", a, None)) @@ (2 :> RaceCall("summary", b, None))
       \/ \E a, b \in RaceTables :
            runs = (1 :> RaceCall("bad_rows", a, BadOrdersName(1)))
                   @@ (2 :> RaceCall("bad_rows", b, BadOrdersName(1)))

\* A run executes the next statement of write_parquet_partition.
RParquet ==
    \E r \in Runs :
        /\ runs[r].kind = "parquet"
        /\ Running(runs[r])
        /\ \E s \in {RaceParquetStep(disk, runs[r])} :
             /\ disk' = s.disk
             /\ runs' = [runs EXCEPT ![r] = s.call]
        /\ UNCHANGED notRace

\* A run executes the next statement of write_summary_json.
RSummary ==
    \E r \in Runs :
        /\ runs[r].kind = "summary"
        /\ Running(runs[r])
        /\ \E s \in {RaceInPlaceStep(disk, runs[r])} :
             /\ disk' = s.disk
             /\ runs' = [runs EXCEPT ![r] = s.call]
        /\ UNCHANGED notRace

\* A run executes the next statement of write_bad_rows_csv.
RBadRows ==
    \E r \in Runs :
        /\ runs[r].kind = "bad_rows"
        /\ Running(runs[r])
        /\ \E s \in {RaceInPlaceStep(disk, runs[r])} :
             /\ disk' = s.disk
             /\ runs' = [runs EXCEPT ![r] = s.call]
        /\ UNCHANGED notRace

RaceNext == RParquet \/ RSummary \/ RBadRows

RaceSpec == RaceInit /\ [][RaceNext]_vars

TransformNext == TAddOrderTotal

TransformSpec == TransformInit /\ [][TransformNext]_vars

WriterNext == WCall \/ WStep \/ WRaise \/ WCrash

WriterSpec == WriterInit /\ [][WriterNext]_vars

----------------------------------------------------------------------------
(* Claims about the parser and the validator (ValidateSpec) *)

\* The column that identifies a row of each file.
KeyOf(name) == IF name = "order" THEN "order_id" ELSE "product_id"

\* How many rows of df carry the key k.
Occurrences(df, key, k) ==
    Cardinality({ i \in 1..len(df) : df.rows[i][key] = k })

\* Every row of input is in exactly one of good and bad.
Partitions(input, good, bad, key) ==
    /\ len(good) + len(bad) = len(input)
    /\ \A i \in 1..len(input) :
         Occurrences(good, key, input.rows[i][key])
           + Occurrences(bad, key, input.rows[i][key]) = 1

\* C3: parse_date_column (with its strict-then-permissive fallback) and
\* validate_dataframe put every input row in exactly one of their two tables:
\* len(good) + len(bad) = len(input).
C3_PartitionComplete ==
    /\ (v_pc \in {"parsed", "validated"} /\ DateColumnOf(v_schema) # "")
         => Partitions(v_raw, v_parsed.good, v_parsed.bad, KeyOf(v_schema))
    /\ v_pc = "validated"
         => Partitions(v_parsed.good, v_valid.good, v_valid.bad, KeyOf(v_schema))

\* A table where the strict parse failed for two rows, the fallback recovered
\* one of them, and validation then rejected a row.
C3_Witness ==
    /\ v_pc = "validated"
    /\ len(v_parsed.bad) > 0
    /\ \E i \in 1..len(v_parsed.good) :
         /\ "_parse_error" \in DOMAIN v_parsed.good.rows[i]
         /\ v_parsed.good.rows[i]["_parse_error"] = StrictFailed
    /\ len(v_valid.bad) > 0

\* A value of the field's declared type.
HasType(type, c) ==
    CASE type = "int" -> c.t = "int"
      [] type = "float" -> c.t \in {"int", "float"}
      [] type = "str" -> c.t = "str"
      [] type = "datetime" -> c.t = "ts"

\* Every field of the schema has a value of its type, within its range.
AllFieldsValid(schema, r) ==
    \A f \in schema :
        /\ f.name \in DOMAIN r
        /\ HasType(f.type, r[f.name])
        /\ f.ge0 => r[f.name].n >= 0

\* Some non-negative-constrained field holds a negative number.
HasNegative(schema, r) ==
    \E f \in schema :
        /\ f.ge0
        /\ f.name \in DOMAIN r
        /\ r[f.name].t \in {"int", "float"}
        /\ r[f.name].n < 0

InTable(df, r) == \E i \in 1..len(df) : df.rows[i] = r

\* r is in the invalid table as it was, plus a populated _error.
Quarantined(df, r) ==
    \E i \in 1..len(df) :
        /\ "_error" \in DOMAIN df.rows[i]
        /\ df.rows[i]["_error"].t = "str"
        /\ df.rows[i]["_error"].s # ""
        /\ \A c \in DOMAIN r : df.rows[i][c] = r[c]

HasKey(df, key, k) == \E i \in 1..len(df) : df.rows[i][key] = k

\* C7: for each schema, a row with a negative non-negative-constrained field
\* is in the invalid table with a populated _error and not in the valid
\* table; a row whose fields are all valid is in the valid table unchanged
\* and not in the invalid table.
C7_RangeRejected ==
    v_pc = "validated" =>
      \A i \in 1..len(v_parsed.good) :
        LET r == v_parsed.good.rows[i]
            key == KeyOf(v_schema)
        IN /\ HasNegative(SchemaOf(v_schema), r) =>
                /\ Quarantined(v_valid.bad, r)
                /\ ~HasKey(v_valid.good, key, r[key])
           /\ AllFieldsValid(SchemaOf(v_schema), r) =>
                /\ InTable(v_valid.good, r)
                /\ ~HasKey(v_valid.bad, key, r[key])

\* A validated table with one row of each sort.
C7_Witness ==
    /\ v_pc = "validated"
    /\ \E i, j \in 1..len(v_parsed.good) :
         /\ HasNegative(SchemaOf(v_schema), v_parsed.good.rows[i])
         /\ AllFieldsValid(SchemaOf(v_schema), v_parsed.good.rows[j])

\* The optional field has no value in the input file.
NoValue(c) == c.t \in {"nan", "none"}

\* Every required field is present and every field satisfies its type and
\* range constraint, an optional field being allowed to have no value.
ValidAsSpecified(schema, r) ==
    \A f \in schema :
        IF f.required
        THEN /\ f.name \in DOMAIN r
             /\ HasType(f.type, r[f.name])
             /\ f.ge0 => r[f.name].n >= 0
        ELSE \/ f.name \notin DOMAIN r
             \/ NoValue(r[f.name])
             \/ HasType(f.type, r[f.name])

\* C8: validate_dataframe with the Order Schema accepts a row iff every
\* required field is present and every field satisfies its type and range
\* constraint; a row whose required fields are valid and whose optional
\* user_id has no value is in the valid table.
C8_OptionalAccepted ==
    (v_pc = "validated" /\ v_schema = "order") =>
      \A i \in 1..len(v_parsed.good) :
        LET r == v_parsed.good.rows[i]
        IN ValidAsSpecified(OrderSchema, r) <=> InTable(v_valid.good, r)

----------------------------------------------------------------------------
(* Claims about the writers (WriterSpec) *)

\* The paths the writers write their data to before the rename.
IsTempPath(p) ==
    \/ p.dir = TmpPrefix
    \/ p.file \in {"summary_{}.json.tmp", ".{}.csv.tmp"}

\* C2: while a writer runs, after it returned or raised, and after the
\* process died at any statement, the final path is absent, or holds the
\* complete file it held before the call, or holds the complete new content;
\* a partial file exists at a temporary path only.
C2_AtomicWrite ==
    w.kind # "none" =>
      /\ exists(fs, FinalPathOf(w)) =>
           \/ Entry(fs, FinalPathOf(w)) \in w_before
           \/ /\ Entry(fs, FinalPathOf(w)).state = "complete"
              /\ Entry(fs, FinalPathOf(w)).data = w.data
      /\ \A f \in fs : f.state = "partial" => IsTempPath(f.path)

\* The process died while the temporary file was partial, the final path
\* holding the file of an earlier call with other content.
C2_Witness ==
    /\ w.at = Crashed
    /\ exists(fs, TmpPathOf(w))
    /\ Entry(fs, TmpPathOf(w)).state = "partial"
    /\ exists(fs, FinalPathOf(w))
    /\ Entry(fs, FinalPathOf(w)).data # w.data

SameCall(a, b) == a.kind = b.kind /\ a.data = b.data /\ a.key = b.key

\* C6: when write_summary_json or write_parquet_partition has returned twice
\* in a row for the same inputs and target, the files are those the first
\* call left: one complete final file with that content, and neither call's
\* temporary file or directory.
C6_IdempotentWriters ==
    (w.at = Returned /\ w.kind \in {"summary", "parquet"} /\ SameCall(w, w_prev)) =>
      /\ fs = w_before
      /\ Cardinality({ f \in fs : f.path = FinalPathOf(w) }) = 1
      /\ Entry(fs, FinalPathOf(w)).state = "complete"
      /\ Entry(fs, FinalPathOf(w)).data = w.data
      /\ \A c \in {w, w_prev} :
           /\ ~exists(fs, TmpPathOf(c))
           /\ c.kind = "parquet" => ~exists(fs, c.outdir_tmp)

\* The same partition was written twice in a row.
C6_Witness ==
    /\ w.at = Returned
    /\ w.kind = "parquet"
    /\ SameCall(w, w_prev)

----------------------------------------------------------------------------
(* Claims about run_for_date (Spec) *)

\* The order file of the call in progress.
OrderFileOf(f) == data_dir.orders[f.day]

\* The entries under the output root.
OutputTree(files) == { e \in files : UnderOutputRoot(e.path) }

\* C1: for the same input files and date, run_for_date with dry_run=True
\* returns the same rows and revenue as with dry_run=False, and at every
\* stage of a dry run (bad order rows, zero valid orders, normal path) the
\* files under the output root are those that were there when it was entered.
C1_DryRunPure ==
    /\ (returned[TRUE].kind = "summary" /\ returned[FALSE].kind = "summary") =>
          /\ returned[TRUE].summary.rows = returned[FALSE].summary.rows
          /\ returned[TRUE].summary.revenue = returned[FALSE].summary.revenue
    /\ (frame.pc # "idle" /\ frame.dry_run) =>
          OutputTree(fs) = OutputTree(frame.fs0)

\* A dry run has returned after a run that wrote its three files, the order
\* file holding a valid row and a bad row.
C1_Witness ==
    /\ frame.pc = "done"
    /\ frame.dry_run
    /\ ret.kind = "summary"
    /\ ret.summary.rows.n > 0
    /\ ret.summary.bad_rows.n > 0
    /\ returned[FALSE].kind = "summary"
    /\ \A d \in OutputDirs : \E e \in fs : e.path.dir = d /\ e.state = "complete"

\* A row of the order file that the date parsers and the Order Schema accept.
ValidOrderRow(r) ==
    /\ r["order_date"].t = "str"
    /\ r["order_date"].s \in {IsoFormat, FlexFormat}
    /\ r["qty"].t = "int" /\ r["qty"].n >= 0
    /\ r["unit_price"].t \in {"int", "float"} /\ r["unit_price"].n >= 0

\* The order file is read and parsed: products.csv and the order file are
\* there, and the order file has its date column.
OrdersParsed(f) ==
    /\ data_dir.products.exists
    /\ OrderFileOf(f).exists
    /\ "order_date" \in OrderFileOf(f).df.columns

\* C4: when every row of the date's order file fails parsing or validation,
\* run_for_date raises nothing and returns a summary with rows=0,
\* revenue=0.0, parquet_path=None and bad_rows equal to the number of rows of
\* the order file.
C4_ZeroValidOrders ==
    (/\ Ended
     /\ OrdersParsed(frame)
     /\ \A i \in 1..len(OrderFileOf(frame).df) :
          ~ValidOrderRow(OrderFileOf(frame).df.rows[i])) =>
      /\ ret.kind = "summary"
      /\ ret.summary.rows = PyInt(0)
      /\ ret.summary.revenue = PyFloat(0)
      /\ ret.summary.parquet_path = None
      /\ ret.summary.bad_rows = PyInt(len(OrderFileOf(frame).df))

\* The call ended on an order file of two rows: one whose date no parser
\* accepts and one with a negative qty.
C4_Witness ==
    /\ Ended
    /\ OrdersParsed(frame)
    /\ len(OrderFileOf(frame).df) = 2
    /\ \E i, j \in 1..2 :
         /\ OrderFileOf(frame).df.rows[i]["order_date"].s = NoFormat
         /\ OrderFileOf(frame).df.rows[j]["order_date"].s # NoFormat
         /\ OrderFileOf(frame).df.rows[j]["qty"].n < 0

\* No row of the product table has the product_id of r.
Unmatched(products, r) ==
    \A j \in 1..len(products) :
        products.rows[j]["product_id"].n # r["product_id"].n

RECURSIVE SumOfProducts(_)
SumOfProducts(rows) ==
    IF rows = <<>> THEN 0
    ELSE (IF ValidOrderRow(rows[1]) THEN rows[1]["qty"].n * rows[1]["unit_price"].n ELSE 0)
         + SumOfProducts(Tail(rows))

\* The sum of the valid rows' totals, each rounded to 2 decimals.
RECURSIVE SumOfRoundedProducts(_)
SumOfRoundedProducts(rows) ==
    IF rows = <<>> THEN 0
    ELSE (IF ValidOrderRow(rows[1])
          THEN round2(rows[1]["qty"].n * rows[1]["unit_price"].n) ELSE 0)
         + SumOfRoundedProducts(Tail(rows))

\* run_for_date returned the summary of a date with valid orders.
ReturnedRevenue == ret.kind = "summary" /\ ret.summary.rows.n > 0

----------------------------------------------------------------------------
(* Claims about main (MainSpec) *)

\* The days start..end, ascending.
DayRange(start, end) == [i \in 1..(end - start + 1) |-> start + i - 1]

\* C5: for start <= end, main calls run_for_date once for each day of the
\* inclusive range in ascending order whatever the earlier dates raised, the
\* loop terminates, and the results have exactly one entry for each day,
\* which is the summary returned or the error raised.
C5_DateRange ==
    /\ [](main.pc = "done" /\ main.start <= main.end =>
            /\ main.called = DayRange(main.start, main.end)
            /\ Cardinality(main.results) = main.end - main.start + 1
            /\ \A d \in main.start..main.end :
                 \E e \in main.results :
                    /\ e.ds = DateNoDash(d)
                    /\ e.res.kind \in {"summary", "error"})
    /\ <>(main.pc = "done")

\* main ended a range of two days or more whose first date raised and whose
\* last date returned a summary.
C5_Witness ==
    /\ main.pc = "done"
    /\ main.start < main.end
    /\ \E e \in main.results : e.ds = DateNoDash(main.start) /\ e.res.kind = "error"
    /\ \E e \in main.results : e.ds = DateNoDash(main.end) /\ e.res.kind = "summary"

----------------------------------------------------------------------------
(* Claims about add_order_total (TransformSpec) *)

\* The same value: the same cell, or the same number whatever its dtype.
SameValue(a, b) ==
    \/ a = b
    \/ /\ a.t \in {"int", "float"}
       /\ b.t \in {"int", "float"}
       /\ Thousandths(a) = Thousandths(b)

\* qty * unit_price of a row with a whole qty, in thousandths.
ExactTotal(r) == (Thousandths(r["qty"]) \div 1000) * Thousandths(r["unit_price"])

\* C11: for every row with a whole qty >= 0 and a unit_price >= 0,
\* add_order_total sets order_total to round(qty * unit_price, 2), keeps the
\* row (as many rows out as in, in the same order) and leaves the values of
\* all its other columns as they were.
C11_OrderTotal ==
    t_pc # "given" =>
      /\ t_pc = "returned"
      /\ len(t_out.df) = len(t_in)
      /\ \A i \in 1..len(t_in) :
           /\ t_out.df.rows[i]["order_total"] = PyFloat(round2(ExactTotal(t_in.rows[i])))
           /\ \A c \in t_in.columns :
                SameValue(t_out.df.rows[i][c], t_in.rows[i][c])

\* A table of two rows was given: one whose total rounds to another amount,
\* with a qty read as float64 and a missing order_status, and one whose total
\* is zero.
C11_Witness ==
    /\ t_pc = "returned"
    /\ \E i, j \in 1..len(t_in) :
         /\ round2(ExactTotal(t_in.rows[i])) # ExactTotal(t_in.rows[i])
         /\ t_in.rows[i]["qty"].t = "float"
         /\ isna(t_in.rows[i]["order_status"])
         /\ ExactTotal(t_in.rows[j]) = 0

----------------------------------------------------------------------------
(* Claims about write_bad_rows_csv (WriterSpec) *)

\* The files, the directories left out.
FilesOf(files) == { f \in files : f.state # "dir" }

\* C12: write_bad_rows_csv called with a bad-row table without rows returns
\* None and, at every statement of the call, the files are those that were
\* there when it was called: no target <name>.csv and no temporary file is
\* created, and a file already at the target stays as it is.
C12_EmptyBadRowsNoOp ==
    (w.kind = "bad_rows" /\ w.data.rows = <<>>) =>
      /\ FilesOf(fs) = FilesOf(w_before)
      /\ w.at \in {1, Returned, Crashed}
      /\ w.at = Returned => WriterResult(w) = Path("", None, "")

\* The call returned for an empty table while the target held the bad rows
\* of an earlier call.
C12_Witness ==
    /\ w.kind = "bad_rows"
    /\ w.data.rows = <<>>
    /\ w.at = Returned
    /\ exists(fs, FinalPathOf(w))
    /\ Entry(fs, FinalPathOf(w)).state = "complete"
    /\ ~empty(Entry(fs, FinalPathOf(w)).data)

----------------------------------------------------------------------------
(* Claims about two runs writing the same target (RaceSpec) *)

\* The file at p is absent or holds all the bytes of one of the two runs.
WholeOrAbsent(p) ==
    exists(disk.names, p) => \E q \in Runs : BytesAt(disk, p) = Serialized(runs[q])

\* C13: when two non-dry runs write the same target (the same partition
\* file, the same summary_<date>.json or the same bad-rows <name>.csv) and
\* their statements interleave in any order, the final file is at every
\* moment absent or holds the complete content of one of the two runs, never
\* partial or mixed content.
C13_AtomicUnderRace ==
    \A r \in Runs : runs[r].kind # "none" => WholeOrAbsent(FinalPathOf(runs[r]))

\* The part of C13 that holds: the partition file, each run writing in the
\* directory mkdtemp made for it alone.
C13_ParquetOnly ==
    \A r \in Runs : runs[r].kind = "parquet" => WholeOrAbsent(FinalPathOf(runs[r]))

----------------------------------------------------------------------------
(* Claims about the product table in run_for_date (Spec) *)

\* The rows of products.csv that violate the Product Schema.
BadProductRows ==
    { i \in 1..len(data_dir.products.df) :
        HasNegative(ProductSchema, data_dir.products.df.rows[i]) }

ProductsBadFile == BadRowsFinal(PyStr("products-bad"))

\* C14: once a run has read a products.csv with a row that violates the
\* Product Schema (a negative price) and has gone on to the orders, in a
\* non-dry run each such row is in bad_rows/products-bad.csv, and in a dry
\* run nothing is written.
C14_BadProductsQuarantined ==
    (/\ frame.pc \notin {"idle", "reading-products"}
     /\ data_dir.products.exists
     /\ BadProductRows # {}) =>
      /\ IF frame.dry_run
         THEN OutputTree(fs) = OutputTree(frame.fs0)
         ELSE /\ exists(fs, ProductsBadFile)
              /\ Entry(fs, ProductsBadFile).state = "complete"
              /\ \A i \in BadProductRows :
                   Quarantined(Entry(fs, ProductsBadFile).data,
                               data_dir.products.df.rows[i])

----------------------------------------------------------------------------
(* Claims about the fatal errors of run_for_date (MainSpec) *)

\* Two rows of products.csv have the same product_id.
DuplicateProductIds ==
    \E i, j \in 1..len(data_dir.products.df) :
        /\ i # j
        /\ data_dir.products.df.rows[i]["product_id"].n
             = data_dir.products.df.rows[j]["product_id"].n

\* The inputs of the call in progress have a fatal error: products.csv is
\* missing, there is no order file for the date, the order file has no
\* order_date column, or a valid order is to be joined to a product table
\* with a repeated product_id.
FatalInput ==
    \/ ~data_dir.products.exists
    \/ ~OrderFileOf(frame).exists
    \/ "order_date" \notin OrderFileOf(frame).df.columns
    \/ /\ DuplicateProductIds
       /\ \E i \in 1..len(OrderFileOf(frame).df) :
            ValidOrderRow(OrderFileOf(frame).df.rows[i])

\* C15: a run_for_date call whose inputs have a fatal error ends with the
\* exception handed to its caller and no summary, and the files under the
\* output root are those that were there when the call began.
C15_FatalLeavesOutput ==
    /\ (Ended /\ FatalInput) => frame.pc = "raised"
    /\ frame.pc = "raised" =>
         /\ FatalInput
         /\ ret.kind = "error"
         /\ ret.summary = NoSummary
         /\ OutputTree(fs) = OutputTree(frame.fs0)

\* A non-dry call failed on a repeated product_id or on a missing order file
\* after the call for the day before had written its files.
C15_Witness ==
    /\ frame.pc = "raised"
    /\ ~frame.dry_run
    /\ data_dir.products.exists
    /\ OutputTree(frame.fs0) # {}

----------------------------------------------------------------------------
(* Claims about the counts of the summary (Spec) *)

\* C16: for every run_for_date call that returns a summary, with dry_run or
\* without, with valid orders or with none, rows + bad_rows is the number of
\* rows of the date's order file.
C16_RowConservation ==
    ret.kind = "summary" =>
      ret.summary.rows.n + ret.summary.bad_rows.n = len(OrderFileOf(frame).df)

\* A summary was returned for an order file of a valid order, joined to no
\* product, and an order that was rejected.
C16_Witness ==
    /\ ret.kind = "summary"
    /\ ret.summary.rows.n > 0
    /\ ret.summary.bad_rows.n > 0
    /\ \E i \in 1..len(OrderFileOf(frame).df) :
         /\ ValidOrderRow(OrderFileOf(frame).df.rows[i])
         /\ Unmatched(frame.products_df, OrderFileOf(frame).df.rows[i])

====
